---- MODULE Spec2Model ----
(***************************************************************************)
(* AnnotationExplorer (src/annotationExplorer.py): a zip archive of images *)
(* and annotation files is extracted to the fixed directory                *)
(* "extracted_files", every extracted file is routed by extension and, for *)
(* annotation files, by a content sniffer, into converted_<zip name>/, and *)
(* the extraction directory is removed.                                    *)
(*                                                                         *)
(* The disk (workspaces, extraction directory) outlives an explorer        *)
(* object; the object's fields are reset by each construction.  One run is *)
(* a construction followed by one explore_and_organize(), as in the        *)
(* module's "Class Usage" and its example at the end of the file.          *)
(***************************************************************************)
EXTENDS Integers, Sequences, FiniteSets, TLC

VARIABLES
    ws,                 \* disk: base name of the zip -> its converted_<name> tree
    scratchExists,      \* disk: does "extracted_files" exist
    scratchFiles,       \* disk: the files under "extracted_files"
    scratchDirs,        \* disk: the subdirectories under "extracted_files"
    pc,                 \* position of the running script
    zip_path,           \* self.zip_path
    zip_members,        \* the members of the zip file at self.zip_path
    base_dir,           \* self.base_dir
    identified_format,  \* self.identified_format
    num_images,         \* self.num_images
    num_annotations,    \* self.num_annotations
    pending,            \* files os.walk has still to yield in the running walk
    file_path,          \* the walk's loop variable: the file taken up last
    visited,            \* files the running walk has classified, in walk order
    result,             \* the dictionary returned by explore_and_organize
    runs,               \* number of constructions so far
    members_seen        \* number of zip members given to the runs so far

vars == <<ws, scratchExists, scratchFiles, scratchDirs, pc, zip_path, zip_members,
          base_dir, identified_format, num_images, num_annotations, pending,
          file_path, visited, result, runs, members_seen>>

-----------------------------------------------------------------------------
(* Bounds of the model. *)

\* constructions (runs of the script) in one behaviour
MaxRuns == 2

\* members extracted from zip files, summed over the runs of one behaviour
MaxFiles == 2

None == "None"

-----------------------------------------------------------------------------
(* Text: a str is a sequence of one-character strings. *)

Digits == {"0", "1", "2", "3", "4", "5", "6", "7", "8", "9"}

Whitespace == {" ", "\t", "\n"}

\* str.isdigit(): non-empty and every character a digit
isdigit(s) == Len(s) > 0 /\ \A i \in 1..Len(s) : s[i] \in Digits

\* index of the first occurrence of character c in s, 0 when there is none
RECURSIVE FirstIndex(_, _, _)
FirstIndex(s, c, i) ==
    IF i > Len(s) THEN 0
    ELSE IF s[i] = c THEN i
    ELSE FirstIndex(s, c, i + 1)

\* part.replace('.', '', 1): the first '.' removed, if there is one
replace_first_dot(s) ==
    LET k == FirstIndex(s, ".", 1)
    IN  IF k = 0 THEN s
        ELSE SubSeq(s, 1, k - 1) \o SubSeq(s, k + 1, Len(s))

\* line.strip().split(): the maximal runs of non-whitespace characters
RECURSIVE split(_, _, _)
split(s, i, cur) ==
    IF i > Len(s) THEN (IF cur = <<>> THEN <<>> ELSE <<cur>>)
    ELSE IF s[i] \in Whitespace
         THEN (IF cur = <<>> THEN <<>> ELSE <<cur>>) \o split(s, i + 1, <<>>)
         ELSE split(s, i + 1, Append(cur, s[i]))

\* the test of one line in _is_yolo
YoloLine(line) ==
    LET parts == split(line, 1, <<>>)
    IN  /\ Len(parts) = 5
        /\ \A k \in 1..Len(parts) : isdigit(replace_first_dot(parts[k]))

-----------------------------------------------------------------------------
(* File contents, as the sniffer selected by the extension reads them. *)

\* .xml as ET.parse sees it: not well formed, or a root tag, the tags of the
\* root's direct children, and the tags of deeper descendants
MalformedXml == [kind |-> "xml", wellformed |-> FALSE, root |-> "", children |-> {}, deeper |-> {}]

VocXml == [kind |-> "xml", wellformed |-> TRUE, root |-> "annotation",
           children |-> {"filename", "object"}, deeper |-> {"bndbox"}]

NestedObjectXml == [kind |-> "xml", wellformed |-> TRUE, root |-> "annotation",
                    children |-> {"objects"}, deeper |-> {"object"}]

OtherRootXml == [kind |-> "xml", wellformed |-> TRUE, root |-> "dataset",
                 children |-> {"object"}, deeper |-> {}]

XmlContents == { MalformedXml, VocXml, NestedObjectXml, OtherRootXml }

L_yolo   == <<"0", " ", ".", "5", " ", "0", ".", "5", " ", "1", ".", " ", "1", "\n">>
L_four   == <<"0", " ", "0", ".", "5", " ", "1", " ", "1">>
L_neg    == <<"0", " ", "-", "0", ".", "5", " ", "1", " ", "1", " ", "1">>
L_dots   == <<"0", " ", "1", ".", "5", ".", "0", " ", "1", " ", "1", " ", "1">>
L_dot    == <<"0", " ", ".", " ", "1", " ", "1", " ", "1">>
L_words  == <<"a", " ", "b", " ", "c", " ", "d", " ", "e">>

\* .txt as open(..., 'r').readlines() sees it: not decodable, or its lines
BinaryTxt == [kind |-> "txt", decodable |-> FALSE, lines |-> <<>>]

YoloTxt == [kind |-> "txt", decodable |-> TRUE, lines |-> <<L_words, L_yolo, L_neg>>]

PlainTxt == [kind |-> "txt", decodable |-> TRUE, lines |-> <<L_four, L_neg, L_dots, L_dot>>]

TxtContents == { BinaryTxt, YoloTxt, PlainTxt }

\* .json as json.load sees it: not valid JSON, or a value of a top-level type
\* with its items: the keys of an object, the elements of an array
MalformedJson == [kind |-> "json", state |-> "malformed", top |-> "", items |-> {}]

CocoJson == [kind |-> "json", state |-> "ok", top |-> "object",
             items |-> {"annotations", "images", "categories", "info"}]

PartialJson == [kind |-> "json", state |-> "ok", top |-> "object",
                items |-> {"annotations", "images"}]

ArrayJson == [kind |-> "json", state |-> "ok", top |-> "array",
              items |-> {"annotations", "images", "categories"}]

NumberJson == [kind |-> "json", state |-> "ok", top |-> "number", items |-> {}]

JsonContents == { MalformedJson, CocoJson, PartialJson, ArrayJson, NumberJson }

Blob == [kind |-> "blob"]

-----------------------------------------------------------------------------
(* File names. *)

\* str.lower() on the letters that occur in the names below
lower_char(c) ==
    CASE c = "P" -> "p" [] c = "N" -> "n" [] c = "G" -> "g" [] c = "J" -> "j"
      [] c = "X" -> "x" [] c = "M" -> "m" [] c = "L" -> "l"
      [] OTHER -> c

lower(s) == [i \in 1..Len(s) |-> lower_char(s[i])]

\* str.endswith(suffix)
endswith(s, suffix) ==
    /\ Len(suffix) <= Len(s)
    /\ SubSeq(s, Len(s) - Len(suffix) + 1, Len(s)) = suffix

\* str.endswith((suffix, ...))
endswith_any(s, suffixes) == \E suffix \in suffixes : endswith(s, suffix)

ImageSuffixes == { <<".", "p", "n", "g">>, <<".", "j", "p", "g">>, <<".", "j", "p", "e", "g">> }
XmlSuffix  == <<".", "x", "m", "l">>
TxtSuffix  == <<".", "t", "x", "t">>
JsonSuffix == <<".", "j", "s", "o", "n">>

N_jpg  == <<"f", ".", "j", "p", "g">>
N_PNG  == <<"f", ".", "P", "N", "G">>
N_Jpeg == <<"f", ".", "J", "p", "e", "g">>
N_xml  == <<"f", ".", "x", "m", "l">>
N_XML  == <<"f", ".", "X", "M", "L">>
N_txt  == <<"f", ".", "t", "x", "t">>
N_json == <<"f", ".", "j", "s", "o", "n">>
N_csv  == <<"f", ".", "c", "s", "v">>

\* a file name with the content of the file
NamedContents ==
    ({N_jpg, N_PNG} \X {Blob}) \cup ({N_Jpeg} \X {CocoJson})
    \cup ({N_csv} \X {Blob}) \cup ({N_XML} \X {VocXml})
    \cup ({N_xml} \X XmlContents)
    \cup ({N_txt} \X TxtContents)
    \cup ({N_json} \X JsonContents)

\* the files of the nested directories d1 and d1/d2
NestedContents == { <<N_jpg, Blob>>, <<N_txt, YoloTxt>> }

DeepContents == { <<N_txt, PlainTxt>> }

File(d, nc) == [dir |-> d, name |-> nc[1], content |-> nc[2]]

\* a file: its directory relative to the root of the zip, its name, its content
Files ==
    { File(<<>>, nc) : nc \in NamedContents }
    \cup { File(<<"d1">>, nc) : nc \in NestedContents }
    \cup { File(<<"d1", "d2">>, nc) : nc \in DeepContents }

\* the loop variable before the walk has taken up a file
NoFile == [dir |-> <<>>, name |-> <<>>, content |-> Blob]

path(f) == <<f.dir, f.name>>

\* zip members have distinct paths
IsArchive(ms) == \A m1, m2 \in ms : path(m1) = path(m2) => m1 = m2

IsPrefix(d, e) == Len(d) <= Len(e) /\ SubSeq(e, 1, Len(d)) = d

\* the directories extraction creates for a file in directory d
DirsOf(d) == { SubSeq(d, 1, k) : k \in 1..Len(d) }

Parent(d) == SubSeq(d, 1, Len(d) - 1)

\* the zip paths the script may be given: folder, file name
ZipPaths == { <<"Example Datasets", "Dental_1.v4i.coco.zip">> }

\* os.path.basename(self.zip_path)
basename(p) == p[2]

DatasetNames == { basename(p) : p \in ZipPaths }

-----------------------------------------------------------------------------
(* The format sniffers. *)

\* the object element looked for at any depth (root.iter) instead of root.find
_is_pascal_voc_any_depth(c) ==
    IF ~c.wellformed THEN FALSE
    ELSE c.root = "annotation" /\ "object" \in (c.children \cup c.deeper)

\* _is_pascal_voc: ET.ParseError is caught; root.find('object') looks at the
\* direct children only
_is_pascal_voc(c) ==
    IF ~c.wellformed THEN FALSE
    ELSE c.root = "annotation" /\ "object" \in c.children

\* _is_yolo: any exception of open/readlines is caught
_is_yolo(c) ==
    IF ~c.decodable THEN FALSE
    ELSE \E i \in 1..Len(c.lines) : YoloLine(c.lines[i])

CocoKeys == {"annotations", "images", "categories"}

\* 'key' in data, for the value json.load returned: a key of a dict, an element
\* of a list, a substring of a str; a TypeError for a number, a bool or None
key_in(key, data) ==
    IF data.top \in {"object", "array", "string"}
    THEN (IF key \in data.items THEN "True" ELSE "False")
    ELSE "TypeError"

\* _is_coco: only json.JSONDecodeError is caught; "True", "False", or the name of
\* the exception that leaves the method
_is_coco(c) ==
    IF c.state = "malformed" THEN "False"
    ELSE IF \E k \in CocoKeys : key_in(k, c) = "TypeError" THEN "TypeError"
    ELSE IF \A k \in CocoKeys : key_in(k, c) = "True" THEN "True"
    ELSE "False"

SnifferErrors == {"TypeError"}

Errors == SnifferErrors \cup {"shutil.Error", "BadZipFile", "OSError"}

-----------------------------------------------------------------------------
(* The disk. *)

\* a converted_<name> tree that does not exist
NoWorkspace ==
    [exists |-> FALSE, train_images |-> {}, validation_images |-> FALSE,
     cocos |-> {}, annotations |-> FALSE, xml |-> {}, yolo |-> {}, coco |-> {}]

\* a file inside a destination folder: its name and its content
Entry(f) == [name |-> f.name, content |-> f.content]

\* _create_folder_structure on the tree t of converted_<name>: every makedirs has
\* exist_ok=True, the two seed documents are (re)written, nothing else is touched
_create_folder_structure(t) ==
    [t EXCEPT !.exists = TRUE,
              !.validation_images = TRUE,
              !.cocos = t.cocos \cup {"val_coco.json", "test_coco.json"}]

\* shutil.move(file_path, os.path.join(images_dir, file)): the destination names
\* the file itself, so os.rename replaces a file of that name
move_to_path(folder, f) == { g \in folder : g.name # f.name } \cup {Entry(f)}

\* shutil.move(file_path, destination_folder) raises shutil.Error when the folder
\* already holds a file of that name
move_raises(folder, f) == \E g \in folder : g.name = f.name

\* shutil.move(file_path, destination_folder) when it does not raise
move_into(folder, f) == folder \cup {Entry(f)}

\* zip_ref.extractall(self.extract_dir) of the members ms over the files there:
\* a member replaces a file at the same path
extract_files(files, ms) ==
    { g \in files : \A m \in ms : path(m) # path(g) } \cup ms

extract_dirs(dirs, ms) == dirs \cup UNION { DirsOf(m.dir) : m \in ms }

\* cleanup's loops: os.walk(self.extract_dir, topdown=False) yields every
\* directory of the tree; in each, every file is removed and every
\* subdirectory is removed with shutil.rmtree
cleanup_walked(exists, dirs) == IF exists THEN {<<>>} \cup dirs ELSE {}

cleanup_rmtree(exists, dirs) ==
    { d \in dirs : Parent(d) \in cleanup_walked(exists, dirs) }

cleanup_files(exists, files, dirs) ==
    { f \in files :
        /\ f.dir \notin cleanup_walked(exists, dirs)
        /\ ~\E d \in cleanup_rmtree(exists, dirs) : IsPrefix(d, f.dir) }

\* cleanup without the loop over dirs: no shutil.rmtree
cleanup_dirs_no_rmtree(exists, dirs) == dirs

cleanup_dirs(exists, dirs) ==
    { e \in dirs : ~\E d \in cleanup_rmtree(exists, dirs) : IsPrefix(d, e) }

-----------------------------------------------------------------------------
(* The classifier's tests and updates. *)

\* the image test without lower(): case sensitive
IsImage_case_sensitive(name) == endswith_any(name, ImageSuffixes)

\* file.lower().endswith(('.png', '.jpg', '.jpeg'))
IsImage(name) == endswith_any(lower(name), ImageSuffixes)

IsXml(name)  == ~IsImage(name) /\ endswith(name, XmlSuffix)
IsTxt(name)  == ~IsImage(name) /\ ~endswith(name, XmlSuffix) /\ endswith(name, TxtSuffix)
IsJson(name) ==
    /\ ~IsImage(name) /\ ~endswith(name, XmlSuffix) /\ ~endswith(name, TxtSuffix)
    /\ endswith(name, JsonSuffix)
IsOther(name) ==
    /\ ~IsImage(name) /\ ~endswith(name, XmlSuffix) /\ ~endswith(name, TxtSuffix)
    /\ ~endswith(name, JsonSuffix)

\* the format is recorded only while none is recorded: first match wins
record_format_first(old, literal) == IF old = None THEN literal ELSE old

\* self.identified_format = <literal>
record_format(old, literal) == literal

\* os.walk (top down) over a chain of directories yields a directory's files
\* before those of its subdirectory; the order inside a directory is the
\* listing order of the file system
WalkNext(f) == f \in pending /\ \A g \in pending : Len(f.dir) <= Len(g.dir)

Walked == pc = "walking" /\ pending = {}

-----------------------------------------------------------------------------
(* The script: explorer = AnnotationExplorer(zip_path);                    *)
(* results = explorer.explore_and_organize()                               *)

NoResult == [dataset_name |-> None, annotation_format |-> None,
             num_images |-> 0, num_annotations_files |-> 0]

Init ==
    /\ ws = [n \in DatasetNames |-> NoWorkspace]
    /\ scratchExists = FALSE
    /\ scratchFiles = {}
    /\ scratchDirs = {}
    /\ pc = "idle"
    /\ zip_path = None
    /\ zip_members = {}
    /\ base_dir = None
    /\ identified_format = None
    /\ num_images = 0
    /\ num_annotations = 0
    /\ pending = {}
    /\ file_path = NoFile
    /\ visited = <<>>
    /\ result = NoResult
    /\ runs = 0
    /\ members_seen = 0

\* the archives a run may be given within the bound on members
RECURSIVE Archives(_)
Archives(n) ==
    IF n <= 0 THEN {{}}
    ELSE LET smaller == Archives(n - 1)
         IN  smaller \cup { ms \cup {f} : ms \in smaller, f \in Files }

\* AnnotationExplorer(zip_path), for a zip file with the members ms; the script
\* is started again after a run has returned or died with an exception
Construct(p, ms) ==
    /\ pc \in {"idle", "done"} \cup Errors
    /\ runs < MaxRuns
    /\ runs' = runs + 1
    /\ members_seen' = members_seen + Cardinality(ms)
    /\ zip_path' = p
    /\ zip_members' = ms
    /\ base_dir' = <<"converted_", basename(p)>>
    /\ ws' = [ws EXCEPT ![basename(p)] = _create_folder_structure(ws[basename(p)])]
    /\ identified_format' = None
    /\ num_images' = 0
    /\ num_annotations' = 0
    /\ pending' = {}
    /\ file_path' = NoFile
    /\ visited' = <<>>
    /\ result' = NoResult
    /\ pc' = "constructed"
    /\ UNCHANGED <<scratchExists, scratchFiles, scratchDirs>>

\* extract_zip, then the first lines of organize_files_and_identify_format:
\* the annotations folder is made and os.walk starts on the extraction directory
Extract ==
    /\ pc = "constructed"
    /\ scratchExists' = TRUE
    /\ scratchFiles' = extract_files(scratchFiles, zip_members)
    /\ scratchDirs' = extract_dirs(scratchDirs, zip_members)
    /\ ws' = [ws EXCEPT ![base_dir[2]].annotations = TRUE]
    /\ pending' = scratchFiles'
    /\ file_path' = NoFile
    /\ visited' = <<>>
    /\ pc' = "walking"
    /\ UNCHANGED <<zip_path, zip_members, base_dir, identified_format, num_images,
                   num_annotations, result, runs, members_seen>>

\* extract_zip on a zip file that is damaged after the members ms: zipfile
\* raises BadZipFile, which nothing catches, with ms already written
ExtractFail(ms) ==
    /\ pc = "constructed"
    /\ ms \subseteq zip_members
    /\ scratchExists' = TRUE
    /\ scratchFiles' = extract_files(scratchFiles, ms)
    /\ scratchDirs' = extract_dirs(scratchDirs, ms)
    /\ pc' = "BadZipFile"
    /\ UNCHANGED <<ws, zip_path, zip_members, base_dir, identified_format, num_images,
                   num_annotations, pending, file_path, visited, result, runs,
                   members_seen>>

\* the walk takes up file f
Take(f) ==
    /\ pc = "walking"
    /\ WalkNext(f)
    /\ file_path' = f
    /\ UNCHANGED <<scratchExists, scratchDirs, zip_path, zip_members, base_dir,
                   result, runs, members_seen>>

\* the walk is done with file f
Pass(f) ==
    /\ pending' = pending \ {f}
    /\ visited' = Append(visited, f)
    /\ pc' = "walking"

\* an exception that nothing catches leaves the walk at file f
Raise(e) ==
    /\ pc' = e
    /\ UNCHANGED <<ws, scratchFiles, identified_format, num_images, num_annotations,
                   pending, visited>>

\* file f matched the sniffer of folder b: _move_file, then format and counter
Route(f, b, literal) ==
    /\ ws' = [ws EXCEPT ![base_dir[2]][b] = move_into(ws[base_dir[2]][b], f)]
    /\ scratchFiles' = scratchFiles \ {f}
    /\ identified_format' = record_format(identified_format, literal)
    /\ num_annotations' = num_annotations + 1
    /\ num_images' = num_images
    /\ Pass(f)

\* file f is left where it is
Leave(f) ==
    /\ UNCHANGED <<ws, scratchFiles, identified_format, num_images, num_annotations>>
    /\ Pass(f)

ClassifyImage(f) ==
    /\ Take(f)
    /\ IsImage(f.name)
    /\ ws' = [ws EXCEPT ![base_dir[2]].train_images =
                            move_to_path(ws[base_dir[2]].train_images, f)]
    /\ scratchFiles' = scratchFiles \ {f}
    /\ num_images' = num_images + 1
    /\ UNCHANGED <<identified_format, num_annotations>>
    /\ Pass(f)

ClassifyXml(f) ==
    /\ Take(f)
    /\ IsXml(f.name)
    /\ \/ /\ _is_pascal_voc(f.content)
          /\ ~move_raises(ws[base_dir[2]].xml, f)
          /\ Route(f, "xml", "Pascal VOC")
       \/ /\ _is_pascal_voc(f.content)
          /\ move_raises(ws[base_dir[2]].xml, f)
          /\ Raise("shutil.Error")
       \/ /\ ~_is_pascal_voc(f.content)
          /\ Leave(f)

ClassifyTxt(f) ==
    /\ Take(f)
    /\ IsTxt(f.name)
    /\ \/ /\ _is_yolo(f.content)
          /\ ~move_raises(ws[base_dir[2]].yolo, f)
          /\ Route(f, "yolo", "YOLO")
       \/ /\ _is_yolo(f.content)
          /\ move_raises(ws[base_dir[2]].yolo, f)
          /\ Raise("shutil.Error")
       \/ /\ ~_is_yolo(f.content)
          /\ Leave(f)

ClassifyJson(f) ==
    /\ Take(f)
    /\ IsJson(f.name)
    /\ \/ /\ _is_coco(f.content) = "True"
          /\ ~move_raises(ws[base_dir[2]].coco, f)
          /\ Route(f, "coco", "COCO")
       \/ /\ _is_coco(f.content) = "True"
          /\ move_raises(ws[base_dir[2]].coco, f)
          /\ Raise("shutil.Error")
       \/ /\ _is_coco(f.content) = "False"
          /\ Leave(f)
       \/ /\ _is_coco(f.content) \in SnifferErrors
          /\ Raise(_is_coco(f.content))

ClassifyOther(f) ==
    /\ Take(f)
    /\ IsOther(f.name)
    /\ Leave(f)

\* cleanup, after the walk has yielded every file; os.rmdir raises OSError on a
\* directory that is not empty
Cleanup ==
    /\ Walked
    /\ LET files == cleanup_files(scratchExists, scratchFiles, scratchDirs)
           dirs  == cleanup_dirs(scratchExists, scratchDirs)
       IN  /\ scratchFiles' = files
           /\ scratchDirs' = dirs
           /\ IF ~scratchExists
              THEN scratchExists' = FALSE /\ pc' = "cleaned"
              ELSE IF files = {} /\ dirs = {}
                   THEN scratchExists' = FALSE /\ pc' = "cleaned"
                   ELSE scratchExists' = TRUE /\ pc' = "OSError"
    /\ UNCHANGED <<ws, zip_path, zip_members, base_dir, identified_format, num_images,
                   num_annotations, pending, file_path, visited, result, runs,
                   members_seen>>

\* the return statement of explore_and_organize
Return ==
    /\ pc = "cleaned"
    /\ result' = [dataset_name |-> basename(zip_path),
                  annotation_format |-> identified_format,
                  num_images |-> num_images,
                  num_annotations_files |-> num_annotations]
    /\ pc' = "done"
    /\ UNCHANGED <<ws, scratchExists, scratchFiles, scratchDirs, zip_path, zip_members,
                   base_dir, identified_format, num_images, num_annotations, pending,
                   file_path, visited, runs, members_seen>>

Next ==
    \/ \E p \in ZipPaths : \E ms \in Archives(MaxFiles - members_seen) : IsArchive(ms) /\ Construct(p, ms)
    \/ Extract
    \/ \E ms \in SUBSET zip_members : ExtractFail(ms)
    \/ \E f \in pending : ClassifyImage(f)
    \/ \E f \in pending : ClassifyXml(f)
    \/ \E f \in pending : ClassifyTxt(f)
    \/ \E f \in pending : ClassifyJson(f)
    \/ \E f \in pending : ClassifyOther(f)
    \/ Cleanup
    \/ Return

Spec == Init /\ [][Next]_vars

-----------------------------------------------------------------------------
(* Properties. *)

\* the tree of the running explorer
Workspace == IF zip_path = None THEN NoWorkspace ELSE ws[basename(zip_path)]

\* the format literal file f is recorded with when the walk takes it up, None
\* when f is an image or matches no sniffer
FormatOf(f) ==
    IF IsXml(f.name) /\ _is_pascal_voc(f.content) THEN "Pascal VOC"
    ELSE IF IsTxt(f.name) /\ _is_yolo(f.content) THEN "YOLO"
    ELSE IF IsJson(f.name) /\ _is_coco(f.content) = "True" THEN "COCO"
    ELSE None

RECURSIVE LastFormat(_)
LastFormat(seq) ==
    IF seq = <<>> THEN None
    ELSE IF FormatOf(seq[Len(seq)]) # None THEN FormatOf(seq[Len(seq)])
    ELSE LastFormat(SubSeq(seq, 1, Len(seq) - 1))

Count(seq, P(_)) == Cardinality({ i \in 1..Len(seq) : P(seq[i]) })

Matched(f) == FormatOf(f) # None

\* the names of the model that end in .png, .jpg or .jpeg in some letter case
ImageNames == {N_jpg, N_PNG, N_Jpeg}

HasImageName(f) == f.name \in ImageNames

\* the walk has just finished with file f
Passed(f) == pc = "walking" /\ visited' = Append(visited, f)

\* C1: a construction for a zip base name whose workspace is already on disk
\* picks a directory that did not exist before
C1_FreshWorkspace ==
    [][(pc # "constructed" /\ pc' = "constructed")
        => ~ws[basename(zip_path')].exists]_vars

\* C2: once cleanup has run, and so after a full run, the extraction directory
\* and everything in it is gone, and cleanup never dies on a non-empty
\* directory
C2_ScratchGone ==
    /\ pc # "OSError"
    /\ pc \in {"cleaned", "done"}
         => ~scratchExists /\ scratchFiles = {} /\ scratchDirs = {}

\* C2: a full run whose cleanup found a file left in a directory two levels
\* deep, after the walk had moved an image out
C2_Witness ==
    /\ pc = "done"
    /\ \E m \in zip_members : Len(m.dir) = 2 /\ ~Matched(m) /\ ~HasImageName(m)
    /\ result.num_images = 1

\* C3: every file with an image name the walk has taken up is moved to
\* train_images and counted once, whatever its content; the step changes
\* neither the annotation counter nor the format; after the walk no image name
\* is left in the extraction directory
C3_ImagesRouted ==
    /\ [](pc = "walking" =>
            /\ num_images = Count(visited, HasImageName)
            /\ \A i \in 1..Len(visited) : HasImageName(visited[i]) =>
                   /\ visited[i] \notin scratchFiles
                   /\ \E g \in Workspace.train_images : g.name = visited[i].name
            /\ pending = {} => ~\E f \in scratchFiles : HasImageName(f))
    /\ [][\A f \in Files : (Passed(f) /\ HasImageName(f)) =>
            /\ num_images' = num_images + 1
            /\ num_annotations' = num_annotations
            /\ identified_format' = identified_format
            /\ Entry(f) \in ws'[basename(zip_path)].train_images
            /\ f \notin scratchFiles']_vars

\* C3: a finished walk that moved an upper-case .PNG from a nested walk of two
\* images, one of them holding JSON text
C3_Witness ==
    /\ Walked
    /\ num_images = 2
    /\ \E i, j \in 1..Len(visited) :
          /\ visited[i].name = N_PNG
          /\ visited[j].name = N_Jpeg /\ visited[j].content = CocoJson

\* C4: no sniffer lets an exception out, whatever the content of the file
C4_SniffersNeverRaise == pc \notin SnifferErrors

\* C5: every file in annotations/coco is a JSON object with the three keys
C5_OnlyCocoObjects ==
    \A g \in Workspace.coco :
        g.content.top = "object" /\ CocoKeys \subseteq g.content.items

\* C6: a .txt file the walk has taken up is in annotations/yolo, and no longer
\* in the extraction directory, exactly when it has a line of five numeric
\* tokens
C6_YoloRouted ==
    (pc \in {"walking"} \cup Errors /\ file_path # NoFile /\ file_path.name = N_txt)
      => ( (file_path.content = YoloTxt)
             <=> (file_path \notin scratchFiles /\ Entry(file_path) \in Workspace.yolo) )

\* C7: the step on an .xml file whose root is not 'annotation' or that has no
\* direct child 'object', and the step on a file of another extension, change
\* nothing on disk and no counter or format
C7_NonMatchUnchanged ==
    [][\A f \in Files :
          ( /\ Passed(f)
            /\ \/ f.name = N_xml /\ (f.content.root # "annotation"
                                       \/ "object" \notin f.content.children)
               \/ f.name \in {N_csv, N_XML} )
          => /\ ws' = ws
             /\ scratchFiles' = scratchFiles
             /\ f \in scratchFiles'
             /\ num_images' = num_images
             /\ num_annotations' = num_annotations
             /\ identified_format' = identified_format]_vars

\* C7: the walk has passed an .xml file whose only 'object' is a grandchild of
\* the root, and the file is still in the extraction directory
C7_Witness ==
    /\ pc = "walking"
    /\ \E i \in 1..Len(visited) :
          /\ visited[i].name = N_xml
          /\ visited[i].content = NestedObjectXml
          /\ visited[i] \in scratchFiles
    /\ num_annotations = 0

\* C8: during and at the end of the walk the format is that of the last file
\* that matched, None when none matched, and the annotation counter is the
\* number of files that matched
C8_LastMatchWins ==
    pc = "walking" =>
        /\ identified_format = LastFormat(visited)
        /\ num_annotations = Count(visited, Matched)
        /\ (identified_format = None <=> ~\E i \in 1..Len(visited) : Matched(visited[i]))

\* C8: a finished walk in which a YOLO file matched after a Pascal VOC file
C8_Witness ==
    /\ Walked
    /\ Len(visited) = 2
    /\ FormatOf(visited[1]) = "Pascal VOC"
    /\ FormatOf(visited[2]) = "YOLO"
    /\ identified_format = "YOLO"
    /\ num_annotations = 2

\* C9: after the walk of the first run the destinations hold as many files as
\* were counted, and no walk dies on a file name that is already taken
C9_Conservation ==
    /\ pc # "shutil.Error"
    /\ (Walked /\ runs = 1) =>
          /\ Cardinality(Workspace.train_images) = num_images
          /\ Cardinality(Workspace.xml) + Cardinality(Workspace.yolo)
               + Cardinality(Workspace.coco) = num_annotations

\* C10: what a run returns is counted from the members of its own zip
C10_RunIsolation ==
    pc = "done" =>
        /\ result.num_images = Cardinality({ m \in zip_members : IsImage(m.name) })
        /\ result.num_annotations_files = Cardinality({ m \in zip_members : Matched(m) })

====
